---- MODULE Spec2Model ----
(***************************************************************************)
(* Model of the Tripay callback service (src/src/server.mjs): the callback *)
(* handler handleTripayCallback, the settlement routine markPaid, and the  *)
(* three store tables they touch (topup_invoices, credits_wallet,          *)
(* credits_ledger).  Every await of the handler is a suspension point, so  *)
(* each action below is one store operation followed by the synchronous    *)
(* code up to the next await.                                              *)
(*                                                                         *)
(* Strings the code inspects character by character (the reference, the    *)
(* status token, the signature) are sequences of one-character strings.    *)
(***************************************************************************)
EXTENDS Integers, Sequences, FiniteSets, Bags, TLC

\* ------------------------------------------------------------------ bounds
\* Requests handled at the same time.
MaxInFlight == 2
\* Requests delivered in one behaviour.
MaxDeliveries == 3

\* ------------------------------------------------------------ JS values
LowerChars == <<"a","b","c","d","e","f","g","h","i","j","k","l","m",
                "n","o","p","q","r","s","t","u","v","w","x","y","z">>
UpperChars == <<"A","B","C","D","E","F","G","H","I","J","K","L","M",
                "N","O","P","Q","R","S","T","U","V","W","X","Y","Z">>
DigitChars == <<"0","1","2","3","4","5","6","7","8","9">>

IndexIn(c, tbl) == IF \E i \in 1..Len(tbl) : tbl[i] = c
                   THEN CHOOSE i \in 1..Len(tbl) : tbl[i] = c
                   ELSE 0

\* String.prototype.toLowerCase / toUpperCase
toLowerCase(s) == [i \in 1..Len(s) |->
                     IF IndexIn(s[i], UpperChars) > 0
                     THEN LowerChars[IndexIn(s[i], UpperChars)] ELSE s[i]]
toUpperCase(s) == [i \in 1..Len(s) |->
                     IF IndexIn(s[i], LowerChars) > 0
                     THEN UpperChars[IndexIn(s[i], LowerChars)] ELSE s[i]]

\* A scalar JS value: undefined, a string, a number or NaN.
Undef  == [t |-> "undef", s |-> <<>>, n |-> 0]
NaN    == [t |-> "nan",   s |-> <<>>, n |-> 0]
Str(s) == [t |-> "str",   s |-> s,    n |-> 0]
Num(n) == [t |-> "num",   s |-> <<>>, n |-> n]

\* JS truthiness and the || operator
Truthy(v) == \/ v.t = "str" /\ v.s # <<>>
             \/ v.t = "num" /\ v.n # 0
Or(a, b) == IF Truthy(a) THEN a ELSE b

IsDigit(c) == IndexIn(c, DigitChars) > 0
DigitVal(c) == IndexIn(c, DigitChars) - 1

RECURSIVE DigitsValue(_, _)
\* value of the longest prefix of digits of s, continuing from acc
DigitsValue(s, acc) ==
  IF s = <<>> \/ ~IsDigit(Head(s)) THEN acc
  ELSE DigitsValue(Tail(s), 10 * acc + DigitVal(Head(s)))

RECURSIVE Digits(_)
Digits(n) == IF n < 10 THEN <<DigitChars[n + 1]>>
             ELSE Digits(n \div 10) \o <<DigitChars[(n % 10) + 1]>>

\* String(v) for a scalar value
StringOf(v) == CASE v.t = "str"   -> v.s
                 [] v.t = "num"   -> Digits(v.n)
                 [] v.t = "nan"   -> <<"N","a","N">>
                 [] OTHER         -> <<"u","n","d","e","f","i","n","e","d">>

\* Number(v): a string converts only when all of it is digits ("" is 0)
NumberOf(v) == CASE v.t = "num" -> v
                 [] v.t = "nan" -> NaN
                 [] v.t = "str" -> IF \A i \in 1..Len(v.s) : IsDigit(v.s[i])
                                   THEN Num(DigitsValue(v.s, 0)) ELSE NaN
                 [] OTHER       -> NaN

\* parseInt(s, 10): an optional sign, then the longest prefix of digits;
\* NaN when no digit follows.
parseInt(s) ==
  LET neg  == s # <<>> /\ Head(s) = "-"
      body == IF s # <<>> /\ Head(s) \in {"+", "-"} THEN Tail(s) ELSE s
  IN IF body = <<>> \/ ~IsDigit(Head(body)) THEN NaN
     ELSE IF neg THEN Num(0 - DigitsValue(body, 0))
     ELSE Num(DigitsValue(body, 0))

\* isFinite(v) for the values above
isFinite(v) == v.t = "num"

RECURSIVE split(_, _)
\* String.prototype.split(sep) for a one-character separator
split(s, sep) ==
  IF \A i \in 1..Len(s) : s[i] # sep THEN <<s>>
  ELSE LET k == CHOOSE i \in 1..Len(s) :
                  s[i] = sep /\ \A j \in 1..(i - 1) : s[j] # sep
       IN <<SubSeq(s, 1, k - 1)>> \o split(SubSeq(s, k + 1, Len(s)), sep)

\* String.prototype.startsWith
startsWith(s, p) == Len(s) >= Len(p) /\ SubSeq(s, 1, Len(p)) = p

\* ------------------------------------------------------ payload objects
\* The fields the handler probes in the data envelope.
FieldKeys == {"merchant_ref", "merchantRef", "reference",
              "amount", "total_amount", "status"}
EmptyObj == [k \in FieldKeys |-> Undef]

\* A parsed JSON payload: its own top-level fields and, when present, the
\* nested object under "data".
EmptyPayload == [own |-> EmptyObj, hasData |-> FALSE, data |-> EmptyObj]
Flat(o)   == [own |-> o, hasData |-> FALSE, data |-> EmptyObj]
Nested(o) == [own |-> EmptyObj, hasData |-> TRUE, data |-> o]

\* The top-level keys of a parsed payload.
TopKeys(payload) == {k \in FieldKeys : payload.own[k].t # "undef"}
                    \cup (IF payload.hasData THEN {"data"} ELSE {})

\* The value of a top-level key ("data" holds the nested object).
TopValue(payload, k) == IF k = "data" THEN payload.data ELSE payload.own[k]

\* Object.assign({}, a, b) on objects held as sets of <<key, origin>>:
\* every top-level key of b overrides a's
Assign(a, b) == {p \in a : \A q \in b : q[1] # p[1]} \cup b

\* ------------------------------------------------------------ references
RefA     == <<"t","o","p","u","p","_","u","1","_","a","_","2">>
RefB     == <<"t","o","p","u","p","_","u","1","_","b","_","1">>
RefShort == <<"t","o","p","u","p","_","u","1","_","a">>
RefNaN   == <<"t","o","p","u","p","_","u","1","_","a","_","x">>
RefOther == <<"i","n","v","_","9">>
U1 == <<"u","1">>
U2 == <<"u","2">>
NoUser == <<>>

\* The managed references (keys of topup_invoices) and the users (keys of
\* credits_wallet) of the model.
Refs  == {RefA, RefB, RefShort, RefNaN}
Users == {U1, U2}

\* ------------------------------------------------------- request bodies
PAIDu    == <<"P","A","I","D">>
SUCCESSu == <<"S","U","C","C","E","S","S">>
EXPIREDu == <<"E","X","P","I","R","E","D">>

B_Empty == ""
B_Bad   == "{"
B_PaidA == "{\"data\":{\"merchant_ref\":\"topup_u1_a_2\",\"status\":\"PAID\",\"amount\":600}}"
B_SuccA == "{\"merchantRef\":\"topup_u1_a_2\",\"status\":\"success\",\"total_amount\":600}"
B_ExpA  == "{\"data\":{\"reference\":\"topup_u1_a_2\",\"status\":\"expired\"}}"
B_PaidB == "{\"data\":{\"merchant_ref\":\"topup_u1_b_1\",\"status\":\"Paid\"}}"
B_Other == "{\"data\":{\"merchant_ref\":\"inv_9\",\"status\":\"PAID\",\"amount\":600}}"
B_Short == "{\"data\":{\"merchant_ref\":\"topup_u1_a\",\"status\":\"PAID\"}}"
B_FooB  == "{\"reference\":\"topup_u1_b_1\",\"status\":\"foo\"}"
B_NaN   == "{\"data\":{\"merchant_ref\":\"topup_u1_a_x\",\"status\":\"PAID\"}}"
B_ExpShort == "{\"reference\":\"topup_u1_a\",\"status\":\"expired\"}"

Bodies == {B_Empty, B_Bad, B_PaidA, B_SuccA, B_ExpA, B_PaidB, B_Other, B_Short,
           B_FooB, B_NaN, B_ExpShort}

\* JSON.parse on the bodies above: ok is FALSE when it throws.
JSONParse(b) ==
  CASE b = B_PaidA -> [ok |-> TRUE, value |-> Nested(
         [EmptyObj EXCEPT !["merchant_ref"] = Str(RefA),
                          !["status"] = Str(PAIDu),
                          !["amount"] = Num(600)])]
    [] b = B_SuccA -> [ok |-> TRUE, value |-> Flat(
         [EmptyObj EXCEPT !["merchantRef"] = Str(RefA),
                          !["status"] = Str(<<"s","u","c","c","e","s","s">>),
                          !["total_amount"] = Num(600)])]
    [] b = B_ExpA  -> [ok |-> TRUE, value |-> Nested(
         [EmptyObj EXCEPT !["reference"] = Str(RefA),
                          !["status"] = Str(<<"e","x","p","i","r","e","d">>)])]
    [] b = B_PaidB -> [ok |-> TRUE, value |-> Nested(
         [EmptyObj EXCEPT !["merchant_ref"] = Str(RefB),
                          !["status"] = Str(<<"P","a","i","d">>)])]
    [] b = B_Other -> [ok |-> TRUE, value |-> Nested(
         [EmptyObj EXCEPT !["merchant_ref"] = Str(RefOther),
                          !["status"] = Str(PAIDu),
                          !["amount"] = Num(600)])]
    [] b = B_Short -> [ok |-> TRUE, value |-> Nested(
         [EmptyObj EXCEPT !["merchant_ref"] = Str(RefShort),
                          !["status"] = Str(PAIDu)])]
    [] b = B_FooB  -> [ok |-> TRUE, value |-> Flat(
         [EmptyObj EXCEPT !["reference"] = Str(RefB),
                          !["status"] = Str(<<"f","o","o">>)])]
    [] b = B_NaN   -> [ok |-> TRUE, value |-> Nested(
         [EmptyObj EXCEPT !["merchant_ref"] = Str(RefNaN),
                          !["status"] = Str(PAIDu)])]
    [] b = B_ExpShort -> [ok |-> TRUE, value |-> Flat(
         [EmptyObj EXCEPT !["reference"] = Str(RefShort),
                          !["status"] = Str(<<"e","x","p","i","r","e","d">>)])]
    [] OTHER       -> [ok |-> FALSE, value |-> EmptyPayload]

\* ------------------------------------------------------------ signature
\* process.env.TRIPAY_PRIVATE_KEY when it is set
SecretKey == <<"k">>

BodyTag(b) ==
  CASE b = B_Empty -> "0" [] b = B_Bad   -> "1" [] b = B_PaidA -> "2"
    [] b = B_SuccA -> "3" [] b = B_ExpA  -> "4" [] b = B_PaidB -> "5"
    [] b = B_Other -> "6" [] b = B_Short -> "7" [] b = B_FooB  -> "8"
    [] b = B_NaN   -> "9" [] OTHER       -> "c"

\* crypto.createHmac("sha256", key).update(body).digest("hex"): a lowercase
\* hex string, different for different bodies and keys
HmacHex(key, b) == IF key = SecretKey THEN <<"a", "e", BodyTag(b)>>
                   ELSE <<"b", "f", BodyTag(b)>>

HeaderNames == {"x-callback-signature", "X-Callback-Signature",
                "x-signature", "X-Signature"}
NoHeaders == [h \in HeaderNames |-> Undef]

getHeaderSignature(headers) ==
  Or(Or(Or(Or(headers["x-callback-signature"], headers["X-Callback-Signature"]),
           headers["x-signature"]), headers["X-Signature"]), Str(<<>>))

\* VerifySignature with the comparison of lines 162-170 left out
VerifySignature_PresenceOnly(key, rawBody, headers) ==
  LET headerSignature == StringOf(Or(getHeaderSignature(headers), Str(<<>>)))
  IN IF key = <<>> \/ headerSignature = <<>> THEN "Missing callback signature"
     ELSE "ok"

\* lines 153-170: "ok", or the error the request is rejected with
VerifySignature(key, rawBody, headers) ==
  LET headerSignature == StringOf(Or(getHeaderSignature(headers), Str(<<>>)))
      expectedSignature == toLowerCase(HmacHex(key, rawBody))
  IN IF key = <<>> \/ headerSignature = <<>> THEN "Missing callback signature"
     ELSE IF expectedSignature # toLowerCase(headerSignature)
          THEN "Invalid signature"
     ELSE "ok"

\* ------------------------------------------------------------ normalizer
\* lines 144-151: payload is {} for an empty body, else JSON.parse(rawBody)
PayloadOf(rawBody) == IF rawBody = "" THEN EmptyPayload
                      ELSE JSONParse(rawBody).value
ParseFails(rawBody) == rawBody # "" /\ ~JSONParse(rawBody).ok

\* lines 172-175
DataOf(payload) == IF payload.hasData THEN payload.data ELSE payload.own

\* lines 176-177, 183
ExternalOf(payload) ==
  LET data == DataOf(payload)
      merchantRef == Or(Or(Or(data["merchant_ref"], data["merchantRef"]),
                           data["reference"]), Str(<<>>))
  IN StringOf(Or(merchantRef, Str(<<>>)))

\* lines 178-180
AmountRawOf(payload) ==
  LET data == DataOf(payload)
  IN NumberOf(Or(Or(Or(data["amount"], data["total_amount"]), Num(0)), Num(0)))

\* line 181
StatusRawOf(payload) ==
  toUpperCase(StringOf(Or(DataOf(payload)["status"], Str(<<>>))))

\* NormalizedStatus with EXPIRED taken for a paid status
NormalizedStatus_ExpiredAsPaid(statusRaw) ==
  IF statusRaw = PAIDu \/ statusRaw = SUCCESSu \/ statusRaw = EXPIREDu
  THEN "PAID"
  ELSE "PENDING"

\* lines 227-232
NormalizedStatus(statusRaw) ==
  IF statusRaw = PAIDu \/ statusRaw = SUCCESSu THEN "PAID"
  ELSE IF statusRaw = EXPIREDu THEN "EXPIRED"
  ELSE "PENDING"

\* InNamespace with the prefix test of line 184 left out
InNamespace_Any(external) == TRUE

TopupPrefix == <<"t","o","p","u","p","_">>
\* line 184
InNamespace(external) == startsWith(external, TopupPrefix)

\* The object a stored raw column or a payload is, as the set of
\* <<key, b>> with b the body in which the top-level key has that value.
Origin(k, b) ==
  CHOOSE c \in Bodies : /\ k \in TopKeys(PayloadOf(c))
                        /\ TopValue(PayloadOf(c), k) = TopValue(PayloadOf(b), k)
RawOf(b) == {<<k, Origin(k, b)>> : k \in TopKeys(PayloadOf(b))}

\* What lines 144-184 derive from a raw body, computed once per body.
Parsed == [b \in Bodies |->
             [parseFails |-> ParseFails(b),
              payload    |-> RawOf(b),
              external   |-> ExternalOf(PayloadOf(b)),
              amountRaw  |-> AmountRawOf(PayloadOf(b)),
              normalizedStatus |-> NormalizedStatus(StatusRawOf(PayloadOf(b)))]]

\* -------------------------------------------------------------- resolver
\* A row of topup_invoices; NoRow is what maybeSingle() yields when there is
\* none (null).  A null column is the empty string, 0 or the empty payload.
NoRow == [exists |-> FALSE, user_id |-> NoUser, credits |-> 0, amount |-> 0,
          status |-> "", paid_at |-> FALSE, raw |-> {}]

\* line 206: external.split("_"), computed once for every reference a body
\* can carry
Segments == [x \in {Parsed[b].external : b \in Bodies} |-> split(x, "_")]

\* the fixed per-credit price of line 224
PricePerCredit == 300

\* Resolve with a quantity of 1 taken when none is resolved
Resolve_DefaultCredits(auditRow, external, amountRaw) ==
  LET userId0  == IF auditRow.exists THEN auditRow.user_id ELSE NoUser
      credits0 == IF auditRow.exists THEN auditRow.credits ELSE 0
      parts    == Segments[external]
      useParts == (userId0 = NoUser \/ credits0 = 0) /\ Len(parts) >= 4
      userId   == IF useParts THEN parts[2] ELSE userId0
      credits  == IF credits0 = 0 THEN 1 ELSE credits0
  IN [ok |-> userId # NoUser, userId |-> userId, credits |-> credits,
      amount |-> credits * PricePerCredit]

\* lines 198-225: the user, the credits and the amount the callback is
\* applied with; ok is FALSE on "Missing user/credits"
Resolve(auditRow, external, amountRaw) ==
  LET userId0  == IF auditRow.exists THEN auditRow.user_id ELSE NoUser
      credits0 == IF auditRow.exists THEN auditRow.credits ELSE 0
      amount0  == NumberOf(Or(Or(Num(IF auditRow.exists THEN auditRow.amount ELSE 0),
                                 amountRaw), Num(0)))
      parts    == Segments[external]
      fallback == userId0 = NoUser \/ credits0 = 0
      useParts == fallback /\ Len(parts) >= 4
      parsedCredits == IF useParts THEN parseInt(parts[4]) ELSE NaN
      userId   == IF useParts THEN parts[2] ELSE userId0
      credits  == IF useParts /\ isFinite(parsedCredits) /\ parsedCredits.n > 0
                  THEN parsedCredits.n ELSE credits0
      amount   == IF ~isFinite(amount0) \/ amount0.n <= 0
                  THEN credits * PricePerCredit ELSE amount0.n
  IN [ok |-> ~(userId = NoUser \/ credits = 0 \/ credits <= 0),
      userId |-> userId, credits |-> credits, amount |-> amount]

\* ----------------------------------------------------------------- state
VARIABLES
  tripayPrivateKey, \* line 10: the shared secret, <<>> when not configured
  invoices,         \* table topup_invoices, by external_id
  wallet,           \* table credits_wallet, by user_id
  ledger,           \* table credits_ledger: a bag of entries
  reqs,             \* the callback requests being handled, by slot
  delivered,        \* requests received so far
  wallet0,          \* history: the wallet table at the start
  invoices0,        \* history: the invoice table at the start
  credited          \* history: balance writes applied, by external_id

vars == <<tripayPrivateKey, invoices, wallet, ledger, reqs, delivered,
          wallet0, invoices0, credited>>

Slots == 1..MaxInFlight

NoWallet == [exists |-> FALSE, balance |-> 0]

\* A request slot.  rawBody, userId, credits, amount, auditRaw and current are
\* the handler's and markPaid's locals that live across an await; res and
\* note are the response sent; method, sigClass, ops (store operations issued)
\* and failed (a store operation of the settlement failed) record what the
\* request was and did.
Idle == [pc |-> "idle", method |-> "", rawBody |-> "", userId |-> NoUser,
         credits |-> 0, amount |-> 0, auditRaw |-> {},
         current |-> 0, res |-> 0, note |-> "",
         sigClass |-> "", ops |-> 0, failed |-> FALSE]

\* What the store client does with one operation: it is applied ("ok"); it
\* is not applied and the client resolves to {data: null, error} ("error"),
\* which every call site of lines 64-129 and 192-251 discards by reading only
\* data; or it is not applied and the awaited promise rejects ("throw").
Outcomes == {"ok", "error", "throw"}

\* sendJson (lines 32-39) as the last step of the handler
sendJson(req, code, note) ==
  [Idle EXCEPT !.pc = "done", !.method = req.method, !.rawBody = req.rawBody,
               !.res = code, !.note = note, !.sigClass = req.sigClass,
               !.ops = req.ops, !.failed = req.failed]

\* one store operation of the settlement (lines 64-129, 237-251) issued by
\* the request, and the lookup of line 192 that precedes the settlement
Op(req, o) == [req EXCEPT !.ops = @ + 1, !.failed = @ \/ o # "ok"]
Lookup(req) == [req EXCEPT !.ops = @ + 1]

\* Caught with the catch of lines 253-256 left out: the rejection leaves the
\* handler and no response is sent
Caught_Unanswered(req, o) == [Op(req, o) EXCEPT !.pc = "rejected"]

\* lines 253-256
Caught(req, o) == sendJson(Op(req, o), 500, "Internal")

\* The signature a request supplies: the first non-empty of the two header
\* names (Node lowercases header names).
SuppliedSignature(headers) ==
  IF Truthy(headers["x-callback-signature"])
  THEN headers["x-callback-signature"].s
  ELSE IF Truthy(headers["x-signature"]) THEN headers["x-signature"].s
  ELSE <<>>

\* How a request stands against the authentication rule.
SigClassOf(key, rawBody, headers) ==
  IF key = <<>> THEN "nokey"
  ELSE IF SuppliedSignature(headers) = <<>> THEN "missing"
  ELSE IF toLowerCase(SuppliedSignature(headers)) # HmacHex(key, rawBody)
       THEN "mismatch"
  ELSE "match"

WrongHex == <<"f", "f", "0">>

\* The header sets a request for body b may carry, by number: none; the
\* digest under the first name; the digest in upper case under the second
\* name; a wrong digest; an empty first header and the digest under the
\* second; a wrong first header and the digest under the second.
HeaderChoice(key, b, i) ==
  LET good == HmacHex(IF key = <<>> THEN SecretKey ELSE key, b)
  IN CASE i = 1 -> [NoHeaders EXCEPT !["x-callback-signature"] = Str(good)]
       [] i = 2 -> [NoHeaders EXCEPT !["x-signature"] = Str(toUpperCase(good))]
       [] i = 3 -> NoHeaders
       [] i = 4 -> [NoHeaders EXCEPT !["x-callback-signature"] = Str(WrongHex)]
       [] i = 5 -> [NoHeaders EXCEPT !["x-callback-signature"] = Str(<<>>),
                                     !["x-signature"] = Str(good)]
       [] OTHER -> [NoHeaders EXCEPT !["x-callback-signature"] = Str(WrongHex),
                                     !["x-signature"] = Str(good)]
AllHeaders == 1..6
SignedHeaders == {1, 2}

\* ------------------------------------------------------------------ Init
\* Rows the invoice-issuing flow may have created before any callback.
PreInvoice == [exists |-> TRUE, user_id |-> U2, credits |-> 3, amount |-> 900,
               status |-> "PENDING", paid_at |-> FALSE, raw |-> {}]

InitInvoices == { [x \in Refs |-> NoRow],
                  [x \in Refs |-> IF x = RefA THEN PreInvoice ELSE NoRow] }

InitWallets == { [u \in Users |-> NoWallet],
                 [u \in Users |-> IF u = U1
                                  THEN [exists |-> TRUE, balance |-> 5]
                                  ELSE NoWallet] }

Init ==
  /\ tripayPrivateKey \in {<<>>, SecretKey}
  /\ invoices \in InitInvoices
  /\ wallet \in InitWallets
  /\ wallet0 = wallet
  /\ invoices0 = invoices
  /\ ledger = EmptyBag
  /\ reqs = [r \in Slots |-> Idle]
  /\ delivered = 0
  /\ credited = [x \in Refs |-> 0]

\* --------------------------------------------------------------- handler
\* Arrive with the method check of lines 133-135 left out
Arrive_AnyMethod(r, m) ==
  /\ reqs[r].pc \in {"idle", "done"}
  /\ delivered < MaxDeliveries
  /\ delivered' = delivered + 1
  /\ reqs' = [reqs EXCEPT ![r] = [Idle EXCEPT !.pc = "read", !.method = m]]
  /\ UNCHANGED <<tripayPrivateKey, invoices, wallet, ledger, wallet0, invoices0, credited>>

\* lines 268-269, 132-135: a request reaches the callback route; any method
\* but POST is answered 405 at once, a POST starts reading its body.
Arrive(r, m) ==
  /\ reqs[r].pc \in {"idle", "done"}
  /\ delivered < MaxDeliveries
  /\ delivered' = delivered + 1
  /\ reqs' = [reqs EXCEPT ![r] =
       IF m # "POST"
       THEN sendJson([Idle EXCEPT !.method = m], 405, "Method not allowed")
       ELSE [Idle EXCEPT !.pc = "read", !.method = m]]
  /\ UNCHANGED <<tripayPrivateKey, invoices, wallet, ledger, wallet0, invoices0, credited>>

\* lines 137-142: the request stream fails while the body is read
BodyReadFails(r) ==
  /\ reqs[r].pc = "read"
  /\ reqs' = [reqs EXCEPT ![r] = sendJson(reqs[r], 400, "Invalid body")]
  /\ UNCHANGED <<tripayPrivateKey, invoices, wallet, ledger, delivered,
                 wallet0, invoices0, credited>>

\* lines 137-189: the body has arrived; parse, verify the signature,
\* normalize, filter by prefix.  The body and the headers of the request are
\* drawn here, where the code first looks at them.
ReadBody(r, rawBody, headers) ==
  /\ reqs[r].pc = "read"
  /\ LET req == [reqs[r] EXCEPT
                   !.rawBody = rawBody,
                   !.sigClass = SigClassOf(tripayPrivateKey, rawBody, headers)]
         sig == VerifySignature(tripayPrivateKey, rawBody, headers)
         external == Parsed[rawBody].external
     IN reqs' = [reqs EXCEPT ![r] =
          IF Parsed[rawBody].parseFails THEN sendJson(req, 400, "Invalid JSON")
          ELSE IF sig # "ok" THEN sendJson(req, 400, sig)
          ELSE IF ~InNamespace(external)
               THEN sendJson(req, 200, "Ignored non-topup callback")
          ELSE [req EXCEPT !.pc = "select"]]
  /\ UNCHANGED <<tripayPrivateKey, invoices, wallet, ledger, delivered,
                 wallet0, invoices0, credited>>

\* The row an upsert on external_id leaves: the given columns replace the
\* row's, paid_at is kept unless given (lines 71-86, 114-129, 237-251).
UpsertRow(old, userId, credits, amount, status, paid, raw) ==
  [exists |-> TRUE, user_id |-> userId, credits |-> credits,
   amount |-> amount, status |-> status,
   paid_at |-> paid \/ (old.exists /\ old.paid_at), raw |-> raw]

\* lines 192-236: the invoice row is read and the reference resolved; the
\* request is answered "Missing user/credits" or goes on to markPaid or to
\* the upsert of a non-PAID status.
SelectInvoice(r, o) ==
  /\ reqs[r].pc = "select"
  /\ LET req == reqs[r]
         external == Parsed[req.rawBody].external
         auditRow == IF o = "ok" THEN invoices[external] ELSE NoRow
         rs == Resolve(auditRow, external, Parsed[req.rawBody].amountRaw)
         normalizedStatus == Parsed[req.rawBody].normalizedStatus
     IN reqs' = [reqs EXCEPT ![r] =
          IF o = "throw" THEN sendJson(Lookup(req), 500, "Internal")
          ELSE IF ~rs.ok THEN sendJson(Lookup(req), 200, "Missing user/credits")
          ELSE [Lookup(req) EXCEPT
                  !.pc = IF normalizedStatus = "PAID" THEN "mp_select"
                         ELSE "upsert",
                  !.userId = rs.userId, !.credits = rs.credits,
                  !.amount = rs.amount,
                  !.auditRaw = IF normalizedStatus = "PAID" THEN {}
                               ELSE auditRow.raw]]
  /\ UNCHANGED <<tripayPrivateKey, invoices, wallet, ledger, delivered,
                 wallet0, invoices0, credited>>

\* lines 237-258: the upsert of a PENDING or EXPIRED status, then 200
UpsertStatus(r, o) ==
  /\ reqs[r].pc = "upsert"
  /\ LET req == reqs[r]
         payload == Parsed[req.rawBody].payload
         external == Parsed[req.rawBody].external
         normalizedStatus == Parsed[req.rawBody].normalizedStatus
     IN /\ invoices' = IF o # "ok" THEN invoices
                       ELSE [invoices EXCEPT ![external] =
                               UpsertRow(@, req.userId, req.credits, req.amount,
                                         normalizedStatus, FALSE,
                                         Assign(req.auditRaw, payload))]
        /\ reqs' = [reqs EXCEPT ![r] =
             IF o = "throw" THEN Caught(req, o)
             ELSE sendJson(Op(req, o), 200, "")]
  /\ UNCHANGED <<tripayPrivateKey, wallet, ledger, delivered, wallet0, invoices0, credited>>

\* -------------------------------------------------------------- markPaid
\* AlreadyPaid with the duplicate check of line 70 never taken
AlreadyPaid_Never(auditRow) == FALSE

\* line 70: the duplicate check on the row read at lines 64-68
AlreadyPaid(auditRow) == auditRow.exists /\ auditRow.status = "PAID"

\* lines 64-70: read the invoice's status and raw, branch on PAID
MpSelect(r, o) ==
  /\ reqs[r].pc = "mp_select"
  /\ LET req == reqs[r]
         external == Parsed[req.rawBody].external
         auditRow == IF o = "ok" THEN invoices[external] ELSE NoRow
     IN reqs' = [reqs EXCEPT ![r] =
          IF o = "throw" THEN Caught(req, o)
          ELSE [Op(req, o) EXCEPT
                  !.pc = IF AlreadyPaid(auditRow) THEN "mp_dup_upsert"
                         ELSE "mp_wallet_upsert",
                  !.auditRaw = auditRow.raw]]
  /\ UNCHANGED <<tripayPrivateKey, invoices, wallet, ledger, delivered,
                 wallet0, invoices0, credited>>

\* lines 71-86 and 114-129: the invoice table after the upsert to PAID that
\* ends both branches of markPaid
UpsertPaid(req) ==
  [invoices EXCEPT ![Parsed[req.rawBody].external] =
     UpsertRow(@, req.userId, req.credits, req.amount, "PAID", TRUE,
               Assign(req.auditRaw, Parsed[req.rawBody].payload))]

\* lines 71-87, then line 258: a duplicate delivery only refreshes the invoice
MpDupUpsert(r, o) ==
  /\ reqs[r].pc = "mp_dup_upsert"
  /\ invoices' = IF o = "ok" THEN UpsertPaid(reqs[r]) ELSE invoices
  /\ reqs' = [reqs EXCEPT ![r] =
       IF o = "throw" THEN Caught(reqs[r], o)
       ELSE sendJson(Op(reqs[r], o), 200, "")]
  /\ UNCHANGED <<tripayPrivateKey, wallet, ledger, delivered, wallet0, invoices0, credited>>

\* lines 90-93: upsert with ignoreDuplicates inserts a zero wallet only
\* when the user has none
InsertIfAbsent(w, userId) ==
  IF w[userId].exists THEN w
  ELSE [w EXCEPT ![userId] = [exists |-> TRUE, balance |-> 0]]

MpWalletUpsert(r, o) ==
  /\ reqs[r].pc = "mp_wallet_upsert"
  /\ LET req == reqs[r]
     IN /\ wallet' = IF o = "ok" THEN InsertIfAbsent(wallet, req.userId)
                     ELSE wallet
        /\ reqs' = [reqs EXCEPT ![r] =
             IF o = "throw" THEN Caught(req, o)
             ELSE [Op(req, o) EXCEPT !.pc = "mp_wallet_select"]]
  /\ UNCHANGED <<tripayPrivateKey, invoices, ledger, delivered, wallet0, invoices0, credited>>

\* lines 95-100: current = Number((wallet && wallet.balance) || 0)
MpWalletSelect(r, o) ==
  /\ reqs[r].pc = "mp_wallet_select"
  /\ LET req == reqs[r]
         row == IF o = "ok" THEN wallet[req.userId] ELSE NoWallet
     IN reqs' = [reqs EXCEPT ![r] =
          IF o = "throw" THEN Caught(req, o)
          ELSE [Op(req, o) EXCEPT
                  !.pc = "mp_wallet_update",
                  !.current = IF row.exists THEN row.balance ELSE 0]]
  /\ UNCHANGED <<tripayPrivateKey, invoices, wallet, ledger, delivered,
                 wallet0, invoices0, credited>>

\* NewBalance with the balance read at lines 95-100 dropped
NewBalance_Overwrite(current, credits) == credits

\* line 104: the balance written
NewBalance(current, credits) == current + credits

\* lines 102-105: update ... eq(user_id) writes the row when there is one
MpWalletUpdate(r, o) ==
  /\ reqs[r].pc = "mp_wallet_update"
  /\ LET req == reqs[r]
         external == Parsed[req.rawBody].external
         hit == o = "ok" /\ wallet[req.userId].exists
     IN /\ wallet' = IF hit
                     THEN [wallet EXCEPT ![req.userId].balance =
                             NewBalance(req.current, req.credits)]
                     ELSE wallet
        /\ credited' = IF hit THEN [credited EXCEPT ![external] = @ + 1]
                       ELSE credited
        /\ reqs' = [reqs EXCEPT ![r] =
             IF o = "throw" THEN Caught(req, o)
             ELSE [Op(req, o) EXCEPT !.pc = "mp_ledger_insert",
                                     !.current = 0]]
  /\ UNCHANGED <<tripayPrivateKey, invoices, ledger, delivered, wallet0, invoices0>>

\* lines 107-112: the ledger entry of the credit
LedgerEntry(userId, credits, externalId) ==
  [user_id |-> userId, reason |-> "purchase_credits", amount |-> credits,
   external_id |-> externalId]

MpLedgerInsert(r, o) ==
  /\ reqs[r].pc = "mp_ledger_insert"
  /\ LET req == reqs[r]
         external == Parsed[req.rawBody].external
     IN /\ ledger' = IF o = "ok"
                     THEN ledger (+) SetToBag({LedgerEntry(req.userId,
                                                req.credits, external)})
                     ELSE ledger
        /\ reqs' = [reqs EXCEPT ![r] =
             IF o = "throw" THEN Caught(req, o)
             ELSE [Op(req, o) EXCEPT !.pc = "mp_invoice_upsert"]]
  /\ UNCHANGED <<tripayPrivateKey, invoices, wallet, delivered, wallet0, invoices0, credited>>

\* lines 114-129, then line 258
MpInvoiceUpsert(r, o) ==
  /\ reqs[r].pc = "mp_invoice_upsert"
  /\ invoices' = IF o = "ok" THEN UpsertPaid(reqs[r]) ELSE invoices
  /\ reqs' = [reqs EXCEPT ![r] =
       IF o = "throw" THEN Caught(reqs[r], o)
       ELSE sendJson(Op(reqs[r], o), 200, "")]
  /\ UNCHANGED <<tripayPrivateKey, wallet, ledger, delivered, wallet0, invoices0, credited>>

\* lines 64-129, 192-196, 237-251: the promise of the awaited store call
\* never settles.  The handler stays suspended at that await; no timer is
\* set anywhere in the handler or on the server (lines 261-277) that would
\* resume it or answer in its place.
StoreStalls(r) ==
  /\ reqs[r].pc \in {"select", "upsert", "mp_select", "mp_dup_upsert",
                     "mp_wallet_upsert", "mp_wallet_select",
                     "mp_wallet_update", "mp_ledger_insert",
                     "mp_invoice_upsert"}
  /\ reqs' = [reqs EXCEPT ![r] = [Lookup(@) EXCEPT !.pc = "awaiting"]]
  /\ UNCHANGED <<tripayPrivateKey, invoices, wallet, ledger, delivered,
                 wallet0, invoices0, credited>>

\* ------------------------------------------------------------------ Spec
Methods == {"POST", "GET"}

\* One step of the settlement of request r: its method drawn from M, its
\* body from B, its headers from the choices H, and the outcome of its store
\* operation from O.
Settle(r, M, B, H, O) ==
  \/ \E m \in M : Arrive(r, m)
  \/ BodyReadFails(r)
  \/ \E b \in B, i \in H :
       ReadBody(r, b, HeaderChoice(tripayPrivateKey, b, i))
  \/ \E o \in O : SelectInvoice(r, o)
  \/ \E o \in O : MpSelect(r, o)
  \/ \E o \in O : MpDupUpsert(r, o)
  \/ \E o \in O : MpWalletUpsert(r, o)
  \/ \E o \in O : MpWalletSelect(r, o)
  \/ \E o \in O : MpWalletUpdate(r, o)
  \/ \E o \in O : MpLedgerInsert(r, o)
  \/ \E o \in O : MpInvoiceUpsert(r, o)

\* One step of request r, the upsert of a non-PAID status included.
Step(r, M, B, H, O) ==
  \/ Settle(r, M, B, H, O)
  \/ \E o \in O : UpsertStatus(r, o)

\* The bodies of callbacks for managed references: all, those of status PAID,
\* and those of status PAID for the reference RefA or an unresolvable one.
TopupBodies  == {B_PaidA, B_SuccA, B_ExpA, B_PaidB, B_Short, B_FooB}
PaidBodies   == {B_PaidA, B_SuccA, B_PaidB, B_Short}
RepeatBodies == {B_PaidA, B_SuccA, B_Short}
RetryBodies  == {B_PaidA, B_SuccA}

InitKeyed == Init /\ tripayPrivateKey = SecretKey

\* Signed callbacks for managed references, any number at once, the store
\* sound.
Next == \E r \in Slots : Step(r, {"POST"}, TopupBodies, SignedHeaders, {"ok"})
Spec == InitKeyed /\ [][Next]_vars

\* Every request the route can receive, any number at once, the store sound.
NextGate == \E r \in Slots : Step(r, Methods, Bodies, AllHeaders, {"ok"})
SpecGate == Init /\ [][NextGate]_vars

\* Every request the route can receive, one after the other, the store sound.
NextSeq == Step(1, Methods, Bodies, AllHeaders, {"ok"})
SpecSeq == Init /\ [][NextSeq]_vars

\* Signed PAID callbacks for one reference, one after the other, the store
\* sound: a gateway delivering the same callback again and again.
NextRepeat == Settle(1, {"POST"}, RepeatBodies, SignedHeaders, {"ok"})
SpecRepeat == InitKeyed /\ [][NextRepeat]_vars

\* The same, each store operation free to reject its promise: a gateway
\* redelivering after each 500.
NextRetry == Settle(1, {"POST"}, RetryBodies, SignedHeaders, {"ok", "throw"})
SpecRetry == InitKeyed /\ [][NextRetry]_vars

\* Signed callbacks for managed references, one after the other, every store
\* operation free to fail in either way.
NextFail == Step(1, {"POST"}, TopupBodies, SignedHeaders, Outcomes)
SpecFail == InitKeyed /\ [][NextFail]_vars

\* Requests of either method, one after the other, each store operation
\* applied or rejected.  Once a request is in the handler its next step is
\* eventually taken: the event loop resumes the handler when the body has
\* arrived (or its stream failed) and when the awaited store call settles.
LiveBodies == {B_Bad, B_PaidA, B_ExpA, B_Short, B_Other}
LiveHeaders == {1, 3, 4}
NextLive == Step(1, Methods, LiveBodies, LiveHeaders, {"ok", "throw"})
SpecLive ==
  /\ InitKeyed
  /\ [][NextLive]_vars
  /\ WF_vars(NextLive /\ reqs[1].pc \notin {"idle", "done"})

\* Signed callbacks, one after the other, each store operation applied or
\* never completing; the handler's enabled steps are eventually taken.
StallBodies == {B_PaidA, B_SuccA, B_ExpA}
NextStall ==
  \/ Step(1, {"POST"}, StallBodies, SignedHeaders, {"ok"})
  \/ StoreStalls(1)
SpecStall ==
  /\ InitKeyed
  /\ [][NextStall]_vars
  /\ WF_vars(NextStall /\ reqs[1].pc \notin {"idle", "done"})

\* Invoice rows that record only part of what a callback needs: the user
\* without a quantity (credits null), or a quantity without a user (user_id
\* null); lines 198-205 provide for both.
UserOnly    == [exists |-> TRUE, user_id |-> U2, credits |-> 0, amount |-> 0,
                status |-> "PENDING", paid_at |-> FALSE, raw |-> {}]
CreditsOnly == [exists |-> TRUE, user_id |-> NoUser, credits |-> 3,
                amount |-> 900, status |-> "PENDING", paid_at |-> FALSE,
                raw |-> {}]

InitResolve ==
  /\ tripayPrivateKey = SecretKey
  /\ wallet = [u \in Users |-> NoWallet]
  /\ wallet0 = wallet
  /\ ledger = EmptyBag
  /\ reqs = [r \in Slots |-> Idle]
  /\ delivered = 0
  /\ credited = [x \in Refs |-> 0]
  /\ invoices \in
       { [x \in Refs |-> NoRow],
         [x \in Refs |-> IF x = RefA THEN PreInvoice ELSE NoRow],
         [x \in Refs |-> IF x = RefA THEN UserOnly ELSE NoRow],
         [x \in Refs |-> IF x \in {RefShort, RefNaN} THEN UserOnly ELSE NoRow],
         [x \in Refs |-> IF x \in {RefShort, RefNaN} THEN CreditsOnly
                         ELSE NoRow] }
  /\ invoices0 = invoices

\* Signed callbacks, one after the other, the store sound, for references
\* whose invoice row or whose encoding is incomplete.
ResolveBodies == {B_PaidA, B_ExpA, B_Short, B_NaN, B_ExpShort}
NextResolve == Step(1, {"POST"}, ResolveBodies, SignedHeaders, {"ok"})
SpecResolve == InitResolve /\ [][NextResolve]_vars

\* ---------------------------------------------------------------- claims
\* Ledger entries with external_id x in ledger l, and what l credits user u.
LedgerCountIn(l, x) ==
  LET es == {e \in BagToSet(l) : e.external_id = x}
  IN BagCardinality([e \in es |-> l[e]])
LedgerCount(x) == LedgerCountIn(ledger, x)

RECURSIVE SumAmounts(_, _)
SumAmounts(l, es) ==
  IF es = {} THEN 0
  ELSE LET e == CHOOSE e \in es : TRUE
       IN e.amount * l[e] + SumAmounts(l, es \ {e})
LedgerSum(u) == SumAmounts(ledger, {e \in BagToSet(ledger) : e.user_id = u})

Balance(w, u) == IF w[u].exists THEN w[u].balance ELSE 0

\* The user and the credits a reference stands for: those of the invoice row
\* issued for it when it records both, else those written in the reference.
Encoded(x) == CASE x = RefA -> [user |-> U1, credits |-> 2]
                [] x = RefB -> [user |-> U1, credits |-> 1]
                [] OTHER    -> [user |-> NoUser, credits |-> 0]
Expected(x) ==
  IF invoices0[x].exists /\ invoices0[x].user_id # NoUser
     /\ invoices0[x].credits > 0
  THEN [user |-> invoices0[x].user_id, credits |-> invoices0[x].credits]
  ELSE Encoded(x)
Resolvable(x) == Expected(x).user # NoUser /\ Expected(x).credits > 0

\* A request in slot r has been answered / is being settled by markPaid
\* (between its first and its last store operation).
Answered(r) == reqs[r].pc = "done"
Settling(r) == reqs[r].pc \in {"mp_dup_upsert", "mp_wallet_upsert",
                               "mp_wallet_select", "mp_wallet_update",
                               "mp_ledger_insert", "mp_invoice_upsert"}
\* A signed, parsed callback of status PAID for a managed reference.
PaidCallback(r) ==
  /\ reqs[r].sigClass = "match"
  /\ reqs[r].rawBody \in PaidBodies

\* C1: whatever the interleaving of concurrent callbacks, a reference has at
\* most one ledger entry and its credit is written to the wallet at most
\* once.
C1_CreditedAtMostOnce ==
  \A x \in Refs : LedgerCount(x) <= 1 /\ credited[x] <= 1

\* C2 as stated: after the N-th delivery of the same signed PAID callback for
\* a managed reference, one after the other with a sound store, the answer
\* was 200, the reference has exactly one ledger entry and the wallet holds
\* its initial balance plus the credits.
C2_Original ==
  (Answered(1) /\ PaidCallback(1)) =>
    LET x == Parsed[reqs[1].rawBody].external
    IN /\ reqs[1].res = 200
       /\ LedgerCount(x) = 1
       /\ ledger = SetToBag({LedgerEntry(Expected(x).user,
                                         Expected(x).credits, x)})
       /\ Balance(wallet, Expected(x).user)
            = Balance(wallet0, Expected(x).user) + Expected(x).credits

\* C2 amended: the same for a reference that resolves to a user and a
\* positive number of credits (through its invoice row or its encoding).
C2_SequentialIdempotence ==
  (Answered(1) /\ PaidCallback(1)
     /\ Resolvable(Parsed[reqs[1].rawBody].external)) =>
    LET x == Parsed[reqs[1].rawBody].external
    IN /\ reqs[1].res = 200
       /\ LedgerCount(x) = 1
       /\ ledger = SetToBag({LedgerEntry(Expected(x).user,
                                         Expected(x).credits, x)})
       /\ Balance(wallet, Expected(x).user)
            = Balance(wallet0, Expected(x).user) + Expected(x).credits

\* a later delivery of the callback for RefA took the duplicate branch (three
\* store operations) and has been answered; the credit was written once
C2_Witness ==
  /\ Answered(1) /\ reqs[1].rawBody = B_PaidA /\ reqs[1].res = 200
  /\ delivered >= 2 /\ reqs[1].ops = 3
  /\ credited[RefA] = 1
  /\ invoices[RefA].status = "PAID"

\* C3: for a user whose wallet started absent or zero and for whom no
\* settlement is in progress, the balance is the sum of the user's ledger
\* entries.  Stated for behaviours in which no reference was credited twice,
\* so that what refutes it is two references of one user, not a duplicate.
C3_BalanceIsLedgerSum ==
  \A u \in Users :
    (/\ Balance(wallet0, u) = 0
     /\ \A r \in Slots : ~(Settling(r) /\ reqs[r].userId = u)
     /\ \A x \in Refs : credited[x] <= 1)
    => Balance(wallet, u) = LedgerSum(u)

\* C4: once the invoice of a reference is PAID and its credit applied, no
\* step changes its status, writes its credit again or adds a ledger entry.
C4_PaidIsTerminal ==
  [][\A x \in Refs :
       (invoices[x].status = "PAID" /\ credited[x] >= 1) =>
         /\ invoices'[x].status = "PAID"
         /\ credited'[x] = credited[x]
         /\ LedgerCountIn(ledger', x) = LedgerCountIn(ledger, x)]_vars

\* C5: a PAID callback during whose settlement by markPaid a store operation
\* failed is answered 500.
C5_FailureIs500 ==
  \A r \in Slots :
    (Answered(r) /\ PaidCallback(r) /\ reqs[r].failed) => reqs[r].res = 500

\* C6: when a delivery of a PAID callback completes (is answered 200), after
\* any number of deliveries that stopped at a rejected store operation, the
\* reference has exactly one ledger entry and the wallet holds its initial
\* balance plus the credits.
C6_RetryIsSafe ==
  (Answered(1) /\ PaidCallback(1) /\ reqs[1].res = 200) =>
    LET x == Parsed[reqs[1].rawBody].external
    IN /\ ledger = SetToBag({LedgerEntry(Expected(x).user,
                                         Expected(x).credits, x)})
       /\ Balance(wallet, Expected(x).user)
            = Balance(wallet0, Expected(x).user) + Expected(x).credits

\* C7: a POST whose signature is missing or wrong, or that arrives with no
\* secret configured, is answered 400 and issues no store operation; a
\* request that has issued a store operation had its signature matched.
C7_AuthenticationGate ==
  \A r \in Slots :
    /\ (reqs[r].method = "POST" /\ reqs[r].pc \notin {"idle", "read"}
          /\ reqs[r].sigClass # "match")
       => (Answered(r) /\ reqs[r].res = 400 /\ reqs[r].ops = 0)
    /\ reqs[r].ops > 0 => reqs[r].sigClass = "match"

\* a request is rejected for a wrong signature after an earlier, signed one
\* was settled
C7_Witness ==
  \E r \in Slots :
    /\ Answered(r) /\ reqs[r].sigClass = "mismatch" /\ reqs[r].res = 400
    /\ ledger # EmptyBag

\* The status token of a body, uppercased, is neither PAID nor SUCCESS.
NotPaidToken(b) ==
  LET token == toUpperCase(StringOf(Or(DataOf(PayloadOf(b))["status"], Str(<<>>))))
  IN token # PAIDu /\ token # SUCCESSu

\* C8: a step of a callback whose status token is not PAID or SUCCESS leaves
\* every wallet and the ledger as they are, and writes at most the invoice of
\* its reference, with status EXPIRED or PENDING.
C8_NonPaidFrame ==
  [][\A r \in Slots :
       (reqs'[r] # reqs[r] /\ NotPaidToken(reqs'[r].rawBody)) =>
         /\ wallet' = wallet
         /\ ledger' = ledger
         /\ \A x \in Refs :
              invoices'[x] # invoices[x] =>
                /\ x = Parsed[reqs'[r].rawBody].external
                /\ invoices'[x].status \in {"EXPIRED", "PENDING"}]_vars

\* an EXPIRED callback has been applied to the invoice of a reference while
\* the ledger holds a credit
C8_Witness ==
  \E r \in Slots :
    /\ Answered(r) /\ reqs[r].rawBody = B_ExpA /\ reqs[r].res = 200
    /\ reqs[r].ops = 2
    /\ invoices[RefA].status = "EXPIRED"
    /\ ledger # EmptyBag

\* C9: a signed, parsed callback whose reference does not start with
\* "topup_" is answered 200 with the note of an ignored callback, and issues
\* no store operation.
C9_ForeignReferenceIgnored ==
  \A r \in Slots :
    (/\ reqs[r].pc \notin {"idle", "read"}
     /\ reqs[r].sigClass = "match"
     /\ ~Parsed[reqs[r].rawBody].parseFails
     /\ ~startsWith(Parsed[reqs[r].rawBody].external, TopupPrefix))
    => /\ Answered(r)
       /\ reqs[r].res = 200
       /\ reqs[r].note = "Ignored non-topup callback"
       /\ reqs[r].ops = 0

\* a signed PAID callback for the reference inv_9 has been answered
C9_Witness ==
  \E r \in Slots :
    /\ Answered(r) /\ reqs[r].rawBody = B_Other
    /\ reqs[r].sigClass = "match" /\ reqs[r].res = 200

\* The bodies of status PAID whose reference is topup_<uid>_<x>_<n>.
EncodedPaidBodies == {B_PaidA, B_SuccA, B_PaidB}

\* C10: after the first callback, a signed PAID one for a reference
\* topup_<uid>_<x>_<n> that had no invoice row, is answered 200, the wallet of
\* uid exists and has grown by n, the ledger holds exactly one entry (uid, n,
\* reference) and the invoice is PAID.
C10_FirstSettlement ==
  (/\ Answered(1) /\ delivered = 1
   /\ reqs[1].sigClass = "match"
   /\ reqs[1].rawBody \in EncodedPaidBodies
   /\ ~invoices0[Parsed[reqs[1].rawBody].external].exists)
  => LET x == Parsed[reqs[1].rawBody].external
         uid == Encoded(x).user
         n == Encoded(x).credits
     IN /\ reqs[1].res = 200
        /\ wallet[uid].exists
        /\ wallet[uid].balance = Balance(wallet0, uid) + n
        /\ ledger = SetToBag({LedgerEntry(uid, n, x)})
        /\ invoices[x].exists /\ invoices[x].status = "PAID"

\* the callback for topup_u1_b_1 settled on a wallet that held 5
C10_Witness ==
  /\ Answered(1) /\ delivered = 1 /\ reqs[1].res = 200
  /\ reqs[1].rawBody = B_PaidB
  /\ wallet0[U1].exists
  /\ wallet[U1].balance = 6
  /\ invoices[RefB].status = "PAID"

\* C11: once the invoice of a reference is EXPIRED, no step changes its
\* status, writes a credit for it to the wallet or adds a ledger entry for it.
C11_ExpiredIsTerminal ==
  [][\A x \in Refs :
       invoices[x].status = "EXPIRED" =>
         /\ invoices'[x].status = "EXPIRED"
         /\ credited'[x] = credited[x]
         /\ LedgerCountIn(ledger', x) = LedgerCountIn(ledger, x)]_vars

\* C12: from a store with no PAID invoice, an invoice with status PAID has a
\* ledger entry with its reference and its credit was written to the wallet.
C12_PaidImpliesLedger ==
  \A x \in Refs :
    invoices[x].status = "PAID" => (LedgerCount(x) >= 1 /\ credited[x] >= 1)

\* C13: when the invoice row read for a callback records a user, the user the
\* callback is applied for (credited, and written back to the invoice) is
\* that user, whatever the reference encodes.
C13_RecordedUserWins ==
  [][LET x == Parsed[reqs[1].rawBody].external
     IN (/\ reqs[1].pc = "select"
         /\ reqs'[1].pc \in {"mp_select", "upsert"}
         /\ invoices[x].exists /\ invoices[x].user_id # NoUser)
        => reqs'[1].userId = invoices[x].user_id]_vars

\* C14: a request whose body was read and whose signature is missing or
\* wrong is answered 400 with a signature error, whether or not its body is
\* JSON; "Invalid JSON" is answered only to a request whose signature matched.
C14_SignatureBeforeParse ==
  \A r \in Slots :
    (Answered(r) /\ reqs[r].sigClass # "") =>
      /\ reqs[r].sigClass # "match" =>
           /\ reqs[r].res = 400
           /\ reqs[r].note \in {"Missing callback signature",
                                "Invalid signature"}
      /\ reqs[r].note = "Invalid JSON" => reqs[r].sigClass = "match"

\* C15: every request is answered exactly once when each store operation
\* returns or throws: a request in the handler is eventually answered, a
\* request one of whose store operations threw is answered 500, and after its
\* response a request takes no further step (the slot changes only when the
\* next request arrives).
C15_ExactlyOneResponse ==
  /\ \A r \in Slots : (reqs[r].pc \notin {"idle", "done"}) ~> Answered(r)
  /\ [](\A r \in Slots : (Answered(r) /\ reqs[r].failed) => reqs[r].res = 500)
  /\ [][\A r \in Slots :
          (Answered(r) /\ reqs'[r] # reqs[r]) => delivered' = delivered + 1]_vars

\* a PAID callback whose ledger insert threw, after the balance write, has
\* been answered 500
C15_Witness ==
  /\ Answered(1) /\ reqs[1].failed /\ reqs[1].res = 500
  /\ reqs[1].ops = 5

\* What the invoice row issued for a reference and the encoding of the
\* reference yield: the row both a user and a positive quantity; the encoding
\* both (at least four segments, the fourth a positive integer); and the two
\* together, the row first and, when it lacks either value, the second
\* segment of a reference of at least four segments as the user and its
\* fourth segment, when a positive integer, as the quantity.
RowYieldsBoth(x) ==
  invoices0[x].exists /\ invoices0[x].user_id # NoUser /\ invoices0[x].credits > 0
EncodingYieldsBoth(x) == Encoded(x).user # NoUser /\ Encoded(x).credits > 0
SegUser(x) == IF x \in {RefA, RefB, RefNaN} THEN U1 ELSE NoUser
Together(x) ==
  LET rowUser    == IF invoices0[x].exists THEN invoices0[x].user_id ELSE NoUser
      rowCredits == IF invoices0[x].exists THEN invoices0[x].credits ELSE 0
      lacks      == rowUser = NoUser \/ rowCredits = 0
  IN [user    |-> IF lacks /\ SegUser(x) # NoUser THEN SegUser(x) ELSE rowUser,
      credits |-> IF lacks /\ Encoded(x).credits > 0 THEN Encoded(x).credits
                  ELSE rowCredits]

\* The first callback has been answered: it was signed, parsed, and for a
\* managed reference.
FirstManaged ==
  /\ Answered(1) /\ delivered = 1
  /\ reqs[1].sigClass = "match"
  /\ ~Parsed[reqs[1].rawBody].parseFails
  /\ startsWith(Parsed[reqs[1].rawBody].external, TopupPrefix)

\* The callback was answered 200 with the note and wrote nothing: its only
\* store operation is the lookup of the invoice row.
SoftFailure ==
  /\ reqs[1].res = 200 /\ reqs[1].note = "Missing user/credits"
  /\ reqs[1].ops = 1
  /\ invoices = invoices0 /\ wallet = wallet0 /\ ledger = EmptyBag

RawKeys(raw) == {p[1] : p \in raw}

\* C17: whatever the interleaving of callbacks, no step removes a top-level
\* field from the raw payload stored for a reference.
C17_RawIsMerged ==
  [][\A x \in Refs :
       RawKeys(invoices[x].raw) \subseteq RawKeys(invoices'[x].raw)]_vars

\* C18: a request with a method other than POST is answered 405 in the step
\* in which it arrives: no body is read, no signature is classified and no
\* store operation is issued.
C18_MethodNotAllowed ==
  \A r \in Slots :
    (reqs[r].pc # "idle" /\ reqs[r].method # "POST") =>
      /\ Answered(r) /\ reqs[r].res = 405
      /\ reqs[r].rawBody = "" /\ reqs[r].sigClass = ""
      /\ reqs[r].ops = 0

\* a GET has been answered 405 after an earlier callback was settled
C18_Witness ==
  /\ Answered(1) /\ reqs[1].method = "GET" /\ reqs[1].res = 405
  /\ ledger # EmptyBag

\* C19: a request waiting for a store operation that never completes is
\* eventually answered 500.
C19_BoundedResponse ==
  \A r \in Slots :
    (reqs[r].pc = "awaiting") ~> (Answered(r) /\ reqs[r].res = 500)

\* C20: whatever the interleaving of callbacks, every ledger entry has a
\* positive amount and no step lowers the balance of a wallet.
C20_BalancesOnlyGrow ==
  /\ [](\A e \in BagToSet(ledger) : e.amount > 0)
  /\ [][\A u \in Users : Balance(wallet', u) >= Balance(wallet, u)]_vars

====
